---- MODULE Spec2Model ----
(***************************************************************************)
(* Model of the photo-meta image analyser:                                 *)
(*   - the heuristic classifier detectAIGeneration (App component),        *)
(*   - the remote verifier GeminiService (isConfigured, detectAIImage),    *)
(*   - the analysis orchestrator processFile with its entry handlers       *)
(*     (file input, paste, drop, URL form) and its asynchronous            *)
(*     continuations, as interleaved on the single-threaded event loop.    *)
(* Text is modelled as sequences of one-character strings so that          *)
(* lower-casing, substring tests and regular-expression replacement are    *)
(* computed character by character.  An error message is the sequence of   *)
(* the string fragments the code concatenates.                              *)
(***************************************************************************)
EXTENDS Integers, Sequences, FiniteSets, TLC

(***************************************************************************)
(* Bounds of the model.                                                    *)
(***************************************************************************)
\* number of analyses (processFile / handleUrlUpload invocations) explored
MaxTasks == 2

\* null / undefined in a slot that holds an object
NULL == [t |-> "null"]
\* null in a slot that holds text
NoText == <<>>

\* the backquote character, which the module cannot write as a literal
BT == "BACKQUOTE"

(***************************************************************************)
(* JavaScript values.                                                      *)
(***************************************************************************)
Undef == [t |-> "undefined"]
JNull == [t |-> "null"]
Str(s) == [t |-> "string", s |-> s]
Num(n) == [t |-> "number", n |-> n]
Bool(b) == [t |-> "boolean", b |-> b]
Arr(items) == [t |-> "array", items |-> items]
\* a tag record { description, ... } produced by the metadata decoder
Tag(d) == [t |-> "tag", description |-> d]
\* an object literal, as a function from its own keys to values
Obj(fields) == [t |-> "object", fields |-> fields]

\* ToBoolean: the falsy values are undefined, null, false, 0, NaN and ""
Truthy(v) ==
    CASE v.t = "undefined" -> FALSE
      [] v.t = "null" -> FALSE
      [] v.t = "boolean" -> v.b
      [] v.t = "number" -> v.n # 0
      [] v.t = "string" -> v.s # <<>>
      [] v.t = "NaN" -> FALSE
      [] OTHER -> TRUE

(***************************************************************************)
(* Text helpers: String.prototype.toLowerCase / includes / trim.           *)
(***************************************************************************)
UpperToLower ==
    ("A" :> "a") @@ ("B" :> "b") @@ ("C" :> "c") @@ ("D" :> "d") @@
    ("E" :> "e") @@ ("F" :> "f") @@ ("G" :> "g") @@ ("H" :> "h") @@
    ("I" :> "i") @@ ("J" :> "j") @@ ("K" :> "k") @@ ("L" :> "l") @@
    ("M" :> "m") @@ ("N" :> "n") @@ ("O" :> "o") @@ ("P" :> "p") @@
    ("Q" :> "q") @@ ("R" :> "r") @@ ("S" :> "s") @@ ("T" :> "t") @@
    ("U" :> "u") @@ ("V" :> "v") @@ ("W" :> "w") @@ ("X" :> "x") @@
    ("Y" :> "y") @@ ("Z" :> "z")

toLowerCase(s) ==
    [i \in 1..Len(s) |->
        IF s[i] \in DOMAIN UpperToLower THEN UpperToLower[s[i]] ELSE s[i]]

\* s.includes(k)
includes(s, k) ==
    \E i \in 0..(Len(s) - Len(k)) : SubSeq(s, i + 1, i + Len(k)) = k

WhiteSpace == {" ", "\n", "\t", "\r"}

Min(S) == CHOOSE x \in S : \A y \in S : x <= y
Max(S) == CHOOSE x \in S : \A y \in S : x >= y

\* positions of the characters of s that are not white space
Inked(s) == {i \in 1..Len(s) : s[i] \notin WhiteSpace}

trimStart(s) ==
    IF Inked(s) = {} THEN <<>> ELSE SubSeq(s, Min(Inked(s)), Len(s))

trimEnd(s) ==
    IF Inked(s) = {} THEN <<>> ELSE SubSeq(s, 1, Max(Inked(s)))

trim(s) == trimEnd(trimStart(s))

(***************************************************************************)
(* Heuristic classifier: detectAIGeneration.                               *)
(***************************************************************************)
aiKeywords ==
    << <<"m", "i", "d", "j", "o", "u", "r", "n", "e", "y">>,
       <<"s", "t", "a", "b", "l", "e", " ", "d", "i", "f", "f", "u", "s",
         "i", "o", "n">>,
       <<"d", "a", "l", "l", "-", "e">>,
       <<"d", "a", "l", "l", "e">>,
       <<"a", "i">>,
       <<"a", "r", "t", "i", "f", "i", "c", "i", "a", "l", " ", "i", "n",
         "t", "e", "l", "l", "i", "g", "e", "n", "c", "e">>,
       <<"g", "e", "n", "e", "r", "a", "t", "e", "d">>,
       <<"s", "y", "n", "t", "h", "e", "s", "i", "s">>,
       <<"d", "i", "f", "f", "u", "s", "i", "o", "n">>,
       <<"n", "e", "u", "r", "a", "l">>,
       <<"g", "a", "n">>,
       <<"g", "p", "t">>,
       <<"o", "p", "e", "n", "a", "i">>,
       <<"r", "u", "n", "w", "a", "y">>,
       <<"f", "i", "r", "e", "f", "l", "y">>,
       <<"a", "d", "o", "b", "e", " ", "f", "i", "r", "e", "f", "l", "y">>,
       <<"b", "i", "n", "g", " ", "i", "m", "a", "g", "e", " ", "c", "r",
         "e", "a", "t", "o", "r">>,
       <<"c", "r", "a", "i", "y", "o", "n">>,
       <<"b", "l", "u", "e", "w", "i", "l", "l", "o", "w">> >>

\* metadata.<key>?.description : undefined unless the value is a tag record
Description(v) == IF v.t = "tag" THEN v.description ELSE Undef

\* the guard  if (metadata.<key>?.description)
FieldChecked(metadata, key) == Truthy(Description(metadata[key]))

\* .toLowerCase() is only defined on strings: a truthy description of
\* another type makes the call throw a TypeError
FieldThrows(metadata, key) ==
    FieldChecked(metadata, key) /\ Description(metadata[key]).t # "string"

\* a block that quotes the lower-cased description
FieldIndicatorsLowered(metadata, key, label) ==
    IF ~FieldChecked(metadata, key) THEN <<>>
    ELSE LET d == Description(metadata[key]).s
             lower == toLowerCase(d)
             hits == SelectSeq(aiKeywords, LAMBDA k : includes(lower, k))
         IN  [i \in 1..Len(hits) |-> label \o lower]

\* a block that reports a field once, however many keywords match
FieldIndicatorsOnce(metadata, key, label) ==
    IF ~FieldChecked(metadata, key) THEN <<>>
    ELSE LET d == Description(metadata[key]).s
             lower == toLowerCase(d)
         IN  IF \E i \in 1..Len(aiKeywords) : includes(lower, aiKeywords[i])
             THEN <<label \o d>> ELSE <<>>

\* the aiKeywords.forEach block of one field: one entry per matching keyword
FieldIndicators(metadata, key, label) ==
    IF ~FieldChecked(metadata, key) THEN <<>>
    ELSE LET d == Description(metadata[key]).s
             lower == toLowerCase(d)
             hits == SelectSeq(aiKeywords, LAMBDA k : includes(lower, k))
         IN  [i \in 1..Len(hits) |-> label \o d]

GenerationParameters ==
    <<"C", "o", "n", "t", "a", "i", "n", "s", " ", "A", "I", " ", "g", "e",
      "n", "e", "r", "a", "t", "i", "o", "n", " ", "p", "a", "r", "a", "m",
      "e", "t", "e", "r", "s">>

MetadataFields ==
    <<"C", "o", "n", "t", "a", "i", "n", "s", " ", "A", "I", " ", "m", "e",
      "t", "a", "d", "a", "t", "a", " ", "f", "i", "e", "l", "d", "s">>

SoftwareLabel == <<"S", "o", "f", "t", "w", "a", "r", "e", ":", " ">>
ArtistLabel == <<"A", "r", "t", "i", "s", "t", ":", " ">>
CommentLabel == <<"C", "o", "m", "m", "e", "n", "t", ":", " ">>
DescriptionLabel ==
    <<"D", "e", "s", "c", "r", "i", "p", "t", "i", "o", "n", ":", " ">>

CheckedFields == {"Software", "Artist", "UserComment", "ImageDescription"}

\* a classifier whose flag looks at the Software entries only
detectAIGenerationBySoftware(metadata) ==
    IF \E k \in CheckedFields : FieldThrows(metadata, k)
    THEN [threw |-> TRUE]
    ELSE LET indicators ==
                 FieldIndicators(metadata, "Software", SoftwareLabel)
              \o FieldIndicators(metadata, "Artist", ArtistLabel)
              \o FieldIndicators(metadata, "UserComment", CommentLabel)
              \o (IF Truthy(metadata["Dream"]) \/ Truthy(metadata["prompt"])
                      \/ Truthy(metadata["parameters"])
                  THEN <<GenerationParameters>> ELSE <<>>)
              \o FieldIndicators(metadata, "ImageDescription",
                                 DescriptionLabel)
              \o (IF Truthy(metadata["parameters"])
                      \/ Truthy(metadata["prompt"])
                      \/ Truthy(metadata["sd-metadata"])
                  THEN <<MetadataFields>> ELSE <<>>)
         IN  [threw |-> FALSE,
              isAI |-> Len(FieldIndicators(metadata, "Software", SoftwareLabel))
                          > 0,
              indicators |-> indicators]

\* a classifier that also scans the Make tag
detectAIGenerationReadingMake(metadata) ==
    IF \E k \in CheckedFields : FieldThrows(metadata, k)
    THEN [threw |-> TRUE]
    ELSE LET indicators ==
                 FieldIndicators(metadata, "Software", SoftwareLabel)
              \o (IF metadata["Make"].t = "tag"
                      /\ metadata["Make"].description.t = "string"
                  THEN FieldIndicators(metadata, "Make", SoftwareLabel)
                  ELSE <<>>)
              \o FieldIndicators(metadata, "Artist", ArtistLabel)
              \o FieldIndicators(metadata, "UserComment", CommentLabel)
              \o (IF Truthy(metadata["Dream"]) \/ Truthy(metadata["prompt"])
                      \/ Truthy(metadata["parameters"])
                  THEN <<GenerationParameters>> ELSE <<>>)
              \o FieldIndicators(metadata, "ImageDescription",
                                 DescriptionLabel)
              \o (IF Truthy(metadata["parameters"])
                      \/ Truthy(metadata["prompt"])
                      \/ Truthy(metadata["sd-metadata"])
                  THEN <<MetadataFields>> ELSE <<>>)
         IN  [threw |-> FALSE,
              isAI |-> Len(indicators) > 0,
              indicators |-> indicators]

\* a classifier that does not repeat the parameters signal
detectAIGenerationOneFlag(metadata) ==
    IF \E k \in CheckedFields : FieldThrows(metadata, k)
    THEN [threw |-> TRUE]
    ELSE LET indicators ==
                 FieldIndicators(metadata, "Software", SoftwareLabel)
              \o FieldIndicators(metadata, "Artist", ArtistLabel)
              \o FieldIndicators(metadata, "UserComment", CommentLabel)
              \o (IF Truthy(metadata["Dream"]) \/ Truthy(metadata["prompt"])
                      \/ Truthy(metadata["parameters"])
                  THEN <<GenerationParameters>> ELSE <<>>)
              \o FieldIndicators(metadata, "ImageDescription",
                                 DescriptionLabel)
              \o (IF ~(Truthy(metadata["Dream"]) \/ Truthy(metadata["prompt"])
                        \/ Truthy(metadata["parameters"]))
                      /\ Truthy(metadata["sd-metadata"])
                  THEN <<MetadataFields>> ELSE <<>>)
         IN  [threw |-> FALSE,
              isAI |-> Len(indicators) > 0,
              indicators |-> indicators]

\* a classifier that checks ImageDescription before the parameter keys
detectAIGenerationFieldsFirst(metadata) ==
    IF \E k \in CheckedFields : FieldThrows(metadata, k)
    THEN [threw |-> TRUE]
    ELSE LET indicators ==
                 FieldIndicators(metadata, "Software", SoftwareLabel)
              \o FieldIndicators(metadata, "Artist", ArtistLabel)
              \o FieldIndicators(metadata, "UserComment", CommentLabel)
              \o FieldIndicators(metadata, "ImageDescription",
                                 DescriptionLabel)
              \o (IF Truthy(metadata["Dream"]) \/ Truthy(metadata["prompt"])
                      \/ Truthy(metadata["parameters"])
                  THEN <<GenerationParameters>> ELSE <<>>)
              \o (IF Truthy(metadata["parameters"])
                      \/ Truthy(metadata["prompt"])
                      \/ Truthy(metadata["sd-metadata"])
                  THEN <<MetadataFields>> ELSE <<>>)
         IN  [threw |-> FALSE,
              isAI |-> Len(indicators) > 0,
              indicators |-> indicators]

\* Result of detectAIGeneration(metadata): either the call throws, or it
\* returns { isAI, indicators }.
detectAIGeneration(metadata) ==
    IF \E k \in CheckedFields : FieldThrows(metadata, k)
    THEN [threw |-> TRUE]
    ELSE LET indicators ==
                 FieldIndicators(metadata, "Software", SoftwareLabel)
              \o FieldIndicators(metadata, "Artist", ArtistLabel)
              \o FieldIndicators(metadata, "UserComment", CommentLabel)
              \o (IF Truthy(metadata["Dream"]) \/ Truthy(metadata["prompt"])
                      \/ Truthy(metadata["parameters"])
                  THEN <<GenerationParameters>> ELSE <<>>)
              \o FieldIndicators(metadata, "ImageDescription",
                                 DescriptionLabel)
              \o (IF Truthy(metadata["parameters"])
                      \/ Truthy(metadata["prompt"])
                      \/ Truthy(metadata["sd-metadata"])
                  THEN <<MetadataFields>> ELSE <<>>)
         IN  [threw |-> FALSE,
              isAI |-> Len(indicators) > 0,
              indicators |-> indicators]

\* a metadata mapping over the keys the classifier reads, plus one key
\* ("Make") it does not read
Meta(sw, ar, uc, id, dr, pr, pa, sd, mk) ==
    ("Software" :> sw) @@ ("Artist" :> ar) @@ ("UserComment" :> uc) @@
    ("ImageDescription" :> id) @@ ("Dream" :> dr) @@ ("prompt" :> pr) @@
    ("parameters" :> pa) @@ ("sd-metadata" :> sd) @@ ("Make" :> mk)

(***************************************************************************)
(* Remote verifier: GeminiService.                                         *)
(* A message is the sequence of the string fragments that make it up, so   *)
(* that the template  Failed to analyze image: ${error.message}  is the    *)
(* concatenation of a fixed fragment and the underlying message.           *)
(***************************************************************************)
Placeholder ==
    <<"y", "o", "u", "r", "_", "a", "p", "i", "_", "k", "e", "y", "_", "h",
      "e", "r", "e">>

FenceJson == <<BT, BT, BT, "j", "s", "o", "n">>

FencePlain == <<BT, BT, BT>>

NoReasoning ==
    <<"N", "o", " ", "r", "e", "a", "s", "o", "n", "i", "n", "g", " ", "p",
      "r", "o", "v", "i", "d", "e", "d">>

BodyFull ==
    <<"{", "\"", "i", "s", "A", "I", "G", "e", "n", "e", "r", "a", "t", "e",
      "d", "\"", ":", "t", "r", "u", "e", ",", "\"", "c", "o", "n", "f", "i",
      "d", "e", "n", "c", "e", "\"", ":", "8", "5", ",", "\"", "r", "e", "a",
      "s", "o", "n", "i", "n", "g", "\"", ":", "\"", "r", "\"", ",", "\"",
      "v", "i", "s", "u", "a", "l", "I", "n", "d", "i", "c", "a", "t", "o",
      "r", "s", "\"", ":", "[", "\"", "v", "\"", "]", "}">>

BodyPartial ==
    <<"{", "\"", "i", "s", "A", "I", "G", "e", "n", "e", "r", "a", "t", "e",
      "d", "\"", ":", "t", "r", "u", "e", ",", "\"", "c", "o", "n", "f", "i",
      "d", "e", "n", "c", "e", "\"", ":", "8", "5", "}">>

BodyEmpty == <<"{", "}">>

BodyOver ==
    <<"{", "\"", "c", "o", "n", "f", "i", "d", "e", "n", "c", "e", "\"", ":",
      "1", "5", "0", "}">>

BodyBlank ==
    <<"{", "\"", "r", "e", "a", "s", "o", "n", "i", "n", "g", "\"", ":",
      "\"", "\"", "}">>

BodyNull == <<"n", "u", "l", "l">>

BodyNumber == <<"7">>

BodyTicks ==
    <<"{", "\"", "r", "e", "a", "s", "o", "n", "i", "n", "g", "\"", ":",
      "\"", "a", BT, BT, BT, "b", "\"", "}">>

BodyTicksClean ==
    <<"{", "\"", "r", "e", "a", "s", "o", "n", "i", "n", "g", "\"", ":",
      "\"", "a", "b", "\"", "}">>

BodyPretty ==
    <<"{", "\n", "\"", "c", "o", "n", "f", "i", "d", "e", "n", "c", "e",
      "\"", ":", "8", "5", "\n", "}">>

BodyPadded == <<" ", "{", "}", " ">>

BodyProse == <<"o", "o", "p", "s">>

BodyCut ==
    <<"{", "\"", "c", "o", "n", "f", "i", "d", "e", "n", "c", "e", "\"", ":">>


\* constructor(): the client and the model are created only for a
\* non-empty key that is not the placeholder
\* a constructor that accepts every non-empty credential
GeminiServiceAnyText(apiKey) ==
    IF Truthy(apiKey)
    THEN [genAI |-> [apiKey |-> apiKey],
          model |-> [model |-> "gemini-2.0-flash-lite"]]
    ELSE [genAI |-> NULL, model |-> NULL]

GeminiService(apiKey) ==
    IF Truthy(apiKey) /\ apiKey # Str(Placeholder)
    THEN [genAI |-> [apiKey |-> apiKey],
          model |-> [model |-> "gemini-2.0-flash-lite"]]
    ELSE [genAI |-> NULL, model |-> NULL]

\* isConfigured() that answers true whatever the constructor built
alwaysConfigured(service) == TRUE

isConfigured(service) == service.genAI # NULL /\ service.model # NULL

\* text.replace(/<marker>\n?/g, ""): every occurrence of the marker, with
\* the newline that follows it when there is one, is removed, left to right
RECURSIVE replaceFence(_, _)
replaceFence(s, marker) ==
    LET starts == {i \in 1..(Len(s) - Len(marker) + 1) :
                       SubSeq(s, i, i + Len(marker) - 1) = marker}
    IN  IF starts = {} THEN s
        ELSE LET i == Min(starts)
                 after == i + Len(marker)
                 next == IF after <= Len(s) /\ s[after] = "\n"
                         THEN after + 1 ELSE after
             IN  SubSeq(s, 1, i - 1)
                 \o replaceFence(SubSeq(s, next, Len(s)), marker)

\* cleanedText of detectAIImage
\* the reply parsed as it came, fences left in place
trimOnly(text) == trim(text)

cleanedText(text) ==
    trim(replaceFence(replaceFence(text, FenceJson), FencePlain))

\* JSON.parse on the texts of this model: the JSON documents and the
\* values they denote; every other text is a SyntaxError
JSONDocuments ==
    { <<BodyFull,
        Obj(("isAIGenerated" :> Bool(TRUE)) @@ ("confidence" :> Num(85)) @@
            ("reasoning" :> Str(<<"r">>)) @@
            ("visualIndicators" :> Arr(<<Str(<<"v">>)>>)))>>,
      <<BodyPartial,
        Obj(("isAIGenerated" :> Bool(TRUE)) @@ ("confidence" :> Num(85)))>>,
      <<BodyEmpty, Obj(<<>>)>>,
      <<BodyOver, Obj(("confidence" :> Num(150)))>>,
      <<BodyBlank, Obj(("reasoning" :> Str(<<>>)))>>,
      <<BodyNull, JNull>>,
      <<BodyNumber, Num(7)>>,
      <<BodyTicks, Obj(("reasoning" :> Str(<<"a", BT, BT, BT, "b">>)))>>,
      <<BodyTicksClean, Obj(("reasoning" :> Str(<<"a", "b">>)))>>,
      <<BodyPretty, Obj(("confidence" :> Num(85)))>> }

\* the message of the SyntaxError of JSON.parse(text).  The parser stops at
\* the first character with which the text can no longer become a
\* document (position pos, counted from 0).  At the end of the text the
\* message is fixed; at a character it names the character and quotes the
\* text, cut to ten characters on each side of pos once the text has 21
\* characters or more.  The texts of this model that are no documents
\* stop at their first character or at their end.
SyntaxErrorMessage(text) ==
    LET body == trimStart(text)
        \* how many leading characters s and d have in common
        PrefixLength(s, d) ==
            Max({n \in 0..Min({Len(s), Len(d)}) :
                    SubSeq(s, 1, n) = SubSeq(d, 1, n)})
        pos == (Len(text) - Len(body))
                 + Max({PrefixLength(body, e[1]) : e \in JSONDocuments})
        len == Len(text)
    IN  IF pos >= len THEN <<"Unexpected end of JSON input">>
        ELSE <<"Unexpected token ", "'", text[pos + 1], "'", ", ">>
             \o (IF len < 21 THEN <<"\"">> \o text \o <<"\"">>
                 ELSE IF pos < 10
                 THEN <<"\"">> \o SubSeq(text, 1, pos + 10) \o <<"\"...">>
                 ELSE IF pos < len - 10
                 THEN <<"...\"">> \o SubSeq(text, pos - 9, pos + 10)
                      \o <<"\"...">>
                 ELSE <<"...\"">> \o SubSeq(text, pos - 9, len) \o <<"\"">>)
             \o <<" is not valid JSON">>

JSONParse(text) ==
    LET t == trim(text)
    IN  IF \E e \in JSONDocuments : e[1] = t
        THEN [ok |-> TRUE,
              value |-> (CHOOSE e \in JSONDocuments : e[1] = t)[2]]
        ELSE [ok |-> FALSE, message |-> SyntaxErrorMessage(text)]

\* parsed.<key>: a TypeError on null, undefined for a missing key or a
\* primitive
GetProperty(parsed, key) ==
    IF parsed.t = "object" /\ key \in DOMAIN parsed.fields
    THEN parsed.fields[key]
    ELSE Undef

\* a ?? b: only undefined and null give way to the default
OrElseNullish(a, b) == IF a.t \in {"undefined", "null"} THEN b ELSE a

\* a || b
OrElse(a, b) == IF Truthy(a) THEN a ELSE b

\* the object literal returned by detectAIImage
ResultOf(parsed) ==
    [isAIGenerated |-> OrElse(GetProperty(parsed, "isAIGenerated"),
                              Bool(FALSE)),
     confidence |-> OrElse(GetProperty(parsed, "confidence"), Num(0)),
     reasoning |-> OrElse(GetProperty(parsed, "reasoning"),
                          Str(NoReasoning)),
     visualIndicators |-> OrElse(GetProperty(parsed, "visualIndicators"),
                                 Arr(<<>>))]

NotConfiguredMessage ==
    <<"Gemini API is not configured. Please add your API key to .env file.">>
FailedPrefix == <<"Failed to analyze image: ">>
FailedGeneric == <<"Failed to analyze image with Gemini">>
NullPropertyMessage ==
    <<"Cannot read properties of null (reading ", "'", "isAIGenerated",
      "'", ")">>

\* a catch block that drops the underlying message
RethrowGeneric(isError, message, encoded, requested) ==
    [ok |-> FALSE, message |-> FailedGeneric,
     encoded |-> encoded, requested |-> requested]

\* the catch block of detectAIImage: (error instanceof Error) selects the
\* message that quotes the underlying one
Rethrow(isError, message, encoded, requested) ==
    [ok |-> FALSE,
     message |-> IF isError THEN FailedPrefix \o message ELSE FailedGeneric,
     encoded |-> encoded, requested |-> requested]

\* detectAIImage without the guard of its first lines: an unconfigured
\* service encodes the file and then fails on the missing model
detectAIImageUnguarded(service, env) ==
    IF env.encode # NoText
    THEN Rethrow(FALSE, env.encode, TRUE, FALSE)
    ELSE IF ~isConfigured(service)
    THEN Rethrow(TRUE, NullPropertyMessage, TRUE, FALSE)
    ELSE IF env.net # NoText
    THEN Rethrow(TRUE, env.net, TRUE, TRUE)
    ELSE LET p == JSONParse(cleanedText(env.text))
         IN  IF ~p.ok THEN Rethrow(TRUE, p.message, TRUE, TRUE)
             ELSE IF p.value.t = "null"
             THEN Rethrow(TRUE, NullPropertyMessage, TRUE, TRUE)
             ELSE [ok |-> TRUE, value |-> ResultOf(p.value),
                   encoded |-> TRUE, requested |-> TRUE]

\* detectAIImage(file) of a service, against an environment env:
\*   env.encode   NoText, or the message of reader.error when the FileReader
\*                of imageToBase64 fires onerror (the promise rejects with
\*                the event, which is not an Error)
\*   env.net      NoText, or the message of the Error thrown by
\*                generateContent / response.text()
\*   env.text     the reply text
\* The result records whether imageToBase64 was called (encoded) and
\* whether generateContent was called (requested).
detectAIImage(service, env) ==
    IF ~isConfigured(service)
    THEN [ok |-> FALSE, message |-> NotConfiguredMessage,
          encoded |-> FALSE, requested |-> FALSE]
    ELSE IF env.encode # NoText
    THEN Rethrow(FALSE, env.encode, TRUE, FALSE)
    ELSE IF env.net # NoText
    THEN Rethrow(TRUE, env.net, TRUE, TRUE)
    ELSE LET p == JSONParse(cleanedText(env.text))
         IN  IF ~p.ok THEN Rethrow(TRUE, p.message, TRUE, TRUE)
             ELSE IF p.value.t = "null"
             THEN Rethrow(TRUE, NullPropertyMessage, TRUE, TRUE)
             ELSE [ok |-> TRUE, value |-> ResultOf(p.value),
                   encoded |-> TRUE, requested |-> TRUE]

\* the reply texts: a body as it is, or inside a code fence
FenceKinds == {"none", "json", "jsonTight", "plain", "plainTight"}

Fenced(kind, body) ==
    CASE kind = "none" -> body
      [] kind = "json" ->
            FenceJson \o <<"\n">> \o body \o <<"\n">> \o FencePlain
      [] kind = "jsonTight" -> FenceJson \o body \o FencePlain
      [] kind = "plain" ->
            FencePlain \o <<"\n">> \o body \o <<"\n">> \o FencePlain
      [] kind = "plainTight" -> FencePlain \o body \o FencePlain

(***************************************************************************)
(* Files and what the platform derives from them.                          *)
(***************************************************************************)
\* the image contents the user can supply
Contents == {"A", "B"}

\* File objects: chosen in the file input, pasted or dropped ...
LocalFiles ==
    { [name |-> "a.png", content |-> "A"],
      [name |-> "b.jpg", content |-> "B"] }

\* ... or built by handleUrlUpload from the fetched blob
UrlFile(c) == [name |-> "image-from-url.jpg", content |-> c]

\* file.size, in bytes
SizeOf(c) == IF c = "A" THEN 2048 ELSE 1587

\* img.width, img.height once the image has loaded
WidthOf(c) == IF c = "A" THEN 640 ELSE 1024
HeightOf(c) == IF c = "A" THEN 480 ELSE 768

\* ExifReader.load(arrayBuffer, ...) when it succeeds
TagsOf(c) ==
    IF c = "A"
    THEN Meta(Tag(Str(<<"M", "i", "d", "j", "o", "u", "r", "n", "e", "y",
                        " ", "v", "5">>)),
              Undef, Undef, Undef, Undef, Undef, Undef, Undef,
              Tag(Str(<<"X">>)))
    ELSE Meta(Undef, Undef, Undef, Undef, Undef, Undef, Undef, Undef,
              Tag(Str(<<"C", "a", "n", "o", "n">>)))

\* reader.result of readAsDataURL(file)
DataURL(f) == <<"data:image;base64", f.content>>

DigitChars == <<"0", "1", "2", "3", "4", "5", "6", "7", "8", "9">>

\* String(n) for a natural number
RECURSIVE NatToString(_)
NatToString(n) ==
    IF n < 10 THEN <<DigitChars[n + 1]>>
    ELSE NatToString(n \div 10) \o <<DigitChars[(n % 10) + 1]>>

\* (size / 1024).toFixed(2) followed by " KB": two decimals, halves
\* rounded up
FileSizeText(size) ==
    LET h == (size * 200 + 1024) \div 2048
    IN  NatToString(h \div 100)
        \o <<".", DigitChars[((h % 100) \div 10) + 1],
             DigitChars[(h % 10) + 1]>>
        \o <<" ", "K", "B">>

\* img.width, " x ", img.height
DimensionsText(w, h) == NatToString(w) \o <<" ", "x", " ">> \o NatToString(h)

(***************************************************************************)
(* State of the App component and of the analyses in flight.               *)
(***************************************************************************)
VARIABLES
    geminiService,  \* the GeminiService singleton built at module load
    mounted,        \* the App component that is mounted: "App.tsx" (the
                    \* one of src/src/App.tsx) or "part_001"
    imagePreview,   \* useState: data URL of the preview, or NoText
    analysis,       \* useState: the current ImageAnalysis record, or NULL
    loading,        \* useState
    geminiLoading,  \* useState
    geminiError,    \* useState: message, or NoText
    imageUrl,       \* useState: text of the URL input
    alerted,        \* analyses that have raised an alert()
    pc,             \* where each analysis is suspended
    file,           \* the File each analysis works on
    reading,        \* whether the preview FileReader of each analysis is
                    \* still reading
    latest,         \* history: the analysis whose processFile ran last
    recTask,        \* history: the analysis that built the current record
    remTask,        \* history: the analysis whose verdict is attached
    installed,      \* history: analyses that have set their record
    invoked,        \* history: analyses that have called detectAIImage
    probeFailed,    \* history: analyses whose image failed to load
    call,           \* a direct call of a function: what it is given
    result,         \* a direct call of a function: what it returned
    visitorData,    \* VisitorCounter useState data: the payload, or JNull
    visitorLoading, \* VisitorCounter useState loading
    visitorError,   \* VisitorCounter useState error
    visitorPc       \* where fetchVisitorCount is suspended

vars ==
    <<geminiService, mounted, imagePreview, analysis, loading, geminiLoading,
      geminiError, imageUrl, alerted, pc, file, reading, latest,
      recTask, remTask, installed, invoked, probeFailed, call, result,
      visitorData, visitorLoading, visitorError, visitorPc>>

Tasks == 1..MaxTasks
\* the value of a history variable that names no analysis
NoTask == MaxTasks + 1

\* import.meta.env.VITE_GEMINI_API_KEY
ApiKeys ==
    { Undef, Str(<<>>), Str(Placeholder), Str(<<"k", "e", "y", "1">>) }

UrlTexts == {"", "https://example.org/a.jpg"}

\* what a call of detectAIImage can meet in an analysis
RemoteEnvs ==
    { [encode |-> NoText, net |-> NoText, text |-> Fenced("json", BodyFull)],
      [encode |-> NoText, net |-> NoText, text |-> BodyPartial],
      [encode |-> NoText, net |-> NoText, text |-> BodyProse],
      [encode |-> NoText, net |-> <<"fetch failed">>, text |-> <<>>],
      [encode |-> <<"The file could not be read">>, net |-> NoText,
       text |-> <<>>] }

\* the component before any event
InitApp ==
    /\ \E k \in ApiKeys : geminiService = GeminiService(k)
    /\ imagePreview = NoText
    /\ analysis = NULL
    /\ loading = FALSE
    /\ geminiLoading = FALSE
    /\ geminiError = NoText
    /\ imageUrl = ""
    /\ alerted = {}
    /\ pc = [t \in Tasks |-> "idle"]
    /\ file = [t \in Tasks |-> NULL]
    /\ reading = [t \in Tasks |-> FALSE]
    /\ latest = NoTask
    /\ recTask = NoTask
    /\ remTask = NoTask
    /\ installed = {}
    /\ invoked = {}
    /\ probeFailed = {}

\* the VisitorCounter before its effect has run
InitVisitorCounter ==
    /\ visitorData = JNull
    /\ visitorLoading = TRUE
    /\ visitorError = FALSE
    /\ visitorPc = "mounted"

Init ==
    /\ InitApp
    /\ \E m \in {"App.tsx", "part_001"} : mounted = m
    /\ InitVisitorCounter
    /\ call = NULL
    /\ result = NULL

\* the ImageAnalysis record built once the image has loaded
analysisData(f, verdict) ==
    [fileName |-> f.name,
     fileSize |-> FileSizeText(SizeOf(f.content)),
     dimensions |-> DimensionsText(WidthOf(f.content), HeightOf(f.content)),
     metadata |-> TagsOf(f.content),
     isAIGenerated |-> verdict.isAI,
     aiIndicators |-> verdict.indicators,
     geminiAnalysis |-> NULL]

\* The values the continuations compute depend only on the file, the
\* service and the reply; they are tabulated once over the inputs of the
\* model.
Files == LocalFiles \cup {UrlFile(c) : c \in Contents}
Services == {GeminiService(k) : k \in ApiKeys}
HeuristicOf == [c \in Contents |-> detectAIGeneration(TagsOf(c))]
InitialAnalysis ==
    [f \in Files |->
        IF HeuristicOf[f.content].threw THEN NULL
        ELSE analysisData(f, HeuristicOf[f.content])]
RemoteOutcome ==
    [s \in Services, env \in RemoteEnvs |-> detectAIImage(s, env)]

\* the next analysis to start: analyses are numbered in the order in which
\* their handler runs
IsNext(t) == pc[t] = "idle" /\ \A u \in Tasks : u < t => pc[u] # "idle"

\* the variables of a direct call
direct == <<call, result>>

\* the variables of the VisitorCounter
visitor == <<visitorData, visitorLoading, visitorError, visitorPc>>

\* processFile(file), up to its first await (file.arrayBuffer())
processFile(t, f) ==
    /\ loading' = TRUE
    /\ geminiError' = NoText
    /\ analysis' = NULL
    /\ imagePreview' = NoText
    /\ reading' = [reading EXCEPT ![t] = TRUE]
    /\ pc' = [pc EXCEPT ![t] = "arrayBuffer"]
    /\ file' = [file EXCEPT ![t] = f]
    /\ latest' = t
    /\ recTask' = NoTask
    /\ remTask' = NoTask
    /\ UNCHANGED <<geminiService, mounted,
                   geminiLoading, alerted, installed, invoked,
                   probeFailed, direct, visitor>>

\* the catch block of processFile (and of handleUrlUpload)
processFileCatch(t) ==
    /\ alerted' = alerted \cup {t}
    /\ loading' = FALSE
    /\ pc' = [pc EXCEPT ![t] = "done"]
    /\ UNCHANGED <<geminiService, mounted,
                   imagePreview, analysis, geminiLoading,
                   geminiError, imageUrl, file, reading, latest, recTask,
                   remTask, installed, invoked, probeFailed, direct, visitor>>

\* onChange of the file input of the App component of src/src/App.tsx:
\* handleFileUpload up to its first await (file.arrayBuffer()); it sets
\* loading and resets nothing
handleFileUploadEarlier(t, f) ==
    /\ mounted = "App.tsx"
    /\ IsNext(t)
    /\ loading' = TRUE
    /\ reading' = [reading EXCEPT ![t] = TRUE]
    /\ pc' = [pc EXCEPT ![t] = "arrayBuffer"]
    /\ file' = [file EXCEPT ![t] = f]
    /\ latest' = t
    /\ UNCHANGED <<geminiService, mounted, imagePreview, analysis,
                   geminiLoading, geminiError, imageUrl, alerted, recTask,
                   remTask, installed, invoked, probeFailed, direct,
                   visitor>>

\* onChange of the file input
handleFileUpload(t, f) ==
    /\ mounted = "part_001"
    /\ IsNext(t)
    /\ processFile(t, f)
    /\ UNCHANGED imageUrl

\* window "paste": the first clipboard item that is an image
handlePaste(t, f) ==
    /\ mounted = "part_001"
    /\ IsNext(t)
    /\ processFile(t, f)
    /\ UNCHANGED imageUrl

\* window "drop" of an image file (the drag highlight flag isDragging,
\* which only selects a style, is left out of the model)
handleGlobalDrop(t, f) ==
    /\ mounted = "part_001"
    /\ IsNext(t)
    /\ processFile(t, f)
    /\ UNCHANGED imageUrl

\* onChange of the URL input
setImageUrl(v) ==
    /\ mounted = "part_001"
    /\ imageUrl' = v
    /\ UNCHANGED <<geminiService, mounted, imagePreview, analysis, loading,
                   geminiLoading, geminiError, alerted, pc, file, reading,
                   latest, recTask, remTask, installed, invoked, probeFailed,
                   direct, visitor>>

\* handleUrlUpload, up to  await fetch(imageUrl); the submit button is
\* disabled while the URL is empty or loading is set
handleUrlUpload(t) ==
    /\ mounted = "part_001"
    /\ IsNext(t)
    /\ imageUrl # ""
    /\ ~loading
    /\ loading' = TRUE
    /\ pc' = [pc EXCEPT ![t] = "fetch"]
    /\ UNCHANGED <<geminiService, mounted,
                   imagePreview, analysis, geminiLoading,
                   geminiError, imageUrl, alerted, file, reading, latest,
                   recTask, remTask, installed, invoked, probeFailed, direct,
                   visitor>>

\* handleUrlUpload after  await fetch(imageUrl)  resolved with an ok
\* response: response.blob() is called and awaited
fetchResolved(t) ==
    /\ pc[t] = "fetch"
    /\ pc' = [pc EXCEPT ![t] = "blob"]
    /\ UNCHANGED <<geminiService, mounted, imagePreview, analysis, loading,
                   geminiLoading, geminiError, imageUrl, alerted, file,
                   reading, latest, recTask, remTask, installed, invoked,
                   probeFailed, direct, visitor>>

\* the catch block of handleUrlUpload: fetch rejects or the response is
\* not ok, or response.blob() rejects
fetchFailed(t) ==
    /\ pc[t] \in {"fetch", "blob"}
    /\ processFileCatch(t)

\* handleUrlUpload after  await response.blob(): the blob becomes a File,
\* processFile is called (and runs to its first await), the input is
\* cleared
blobResolved(t, c) ==
    /\ pc[t] = "blob"
    /\ processFile(t, UrlFile(c))
    /\ imageUrl' = ""

\* reader.onload of the preview FileReader
readerOnload(t) ==
    /\ reading[t]
    /\ imagePreview' = DataURL(file[t])
    /\ reading' = [reading EXCEPT ![t] = FALSE]
    /\ UNCHANGED <<geminiService, mounted, analysis, loading, geminiLoading,
                   geminiError, imageUrl, alerted, pc, file, latest, recTask,
                   remTask, installed, invoked, probeFailed, direct, visitor>>

\* the preview FileReader fails: no handler is registered
readerOnerror(t) ==
    /\ reading[t]
    /\ reading' = [reading EXCEPT ![t] = FALSE]
    /\ UNCHANGED <<geminiService, mounted, imagePreview, analysis, loading,
                   geminiLoading, geminiError, imageUrl, alerted, pc, file,
                   latest, recTask, remTask, installed, invoked, probeFailed,
                   direct, visitor>>

\* file.arrayBuffer() resolved and ExifReader.load returned: the Image is
\* created and processFile awaits img.onload
arrayBufferResolved(t) ==
    /\ pc[t] = "arrayBuffer"
    /\ pc' = [pc EXCEPT ![t] = "probe"]
    /\ UNCHANGED <<geminiService, mounted, imagePreview, analysis, loading,
                   geminiLoading, geminiError, imageUrl, alerted, file,
                   reading, latest, recTask, remTask, installed, invoked,
                   probeFailed, direct, visitor>>

\* a decode failure that ends the analysis without telling the user
metadataFailedSilently(t) ==
    /\ pc[t] = "arrayBuffer"
    /\ loading' = FALSE
    /\ pc' = [pc EXCEPT ![t] = "done"]
    /\ UNCHANGED <<geminiService, mounted,
                   imagePreview, analysis, geminiLoading,
                   geminiError, imageUrl, alerted, file, reading, latest,
                   recTask, remTask, installed, invoked, probeFailed, direct,
                   visitor>>

\* file.arrayBuffer() rejected, or ExifReader.load threw
metadataFailed(t) ==
    /\ pc[t] = "arrayBuffer"
    /\ processFileCatch(t)

\* an onload continuation that calls the verifier before any record is set
imgOnloadVerifyingFirst(t) ==
    /\ mounted = "part_001"
    /\ pc[t] = "probe"
    /\ geminiLoading' = TRUE
    /\ invoked' = invoked \cup {t}
    /\ pc' = [pc EXCEPT ![t] = "remote"]
    /\ UNCHANGED <<geminiService, mounted, imagePreview, analysis, loading,
                   geminiError, imageUrl, alerted, file, reading, latest,
                   recTask, remTask, installed, probeFailed, direct, visitor>>

\* img.onload: the rest of processFile up to  await detectAIImage(file)
imgOnload(t) ==
    /\ mounted = "part_001"
    /\ pc[t] = "probe"
    /\ LET verdict == HeuristicOf[file[t].content]
       IN  IF verdict.threw
           THEN processFileCatch(t)
           ELSE /\ analysis' = InitialAnalysis[file[t]]
                /\ recTask' = t
                /\ remTask' = NoTask
                /\ installed' = installed \cup {t}
                /\ loading' = FALSE
                /\ IF isConfigured(geminiService)
                   THEN /\ geminiLoading' = TRUE
                        /\ invoked' = invoked \cup {t}
                        /\ pc' = [pc EXCEPT ![t] = "remote"]
                   ELSE /\ geminiLoading' = geminiLoading
                        /\ invoked' = invoked
                        /\ pc' = [pc EXCEPT ![t] = "done"]
                /\ UNCHANGED <<geminiService, mounted,
                               imagePreview, geminiError,
                               imageUrl, alerted, file, reading, latest,
                               probeFailed, direct, visitor>>

\* img.onload in the App component of src/src/App.tsx: the rest of
\* handleFileUpload; the record is set, finally clears loading, and no
\* verifier is called
imgOnloadEarlier(t) ==
    /\ mounted = "App.tsx"
    /\ pc[t] = "probe"
    /\ LET verdict == HeuristicOf[file[t].content]
       IN  IF verdict.threw
           THEN processFileCatch(t)
           ELSE /\ analysis' = InitialAnalysis[file[t]]
                /\ recTask' = t
                /\ installed' = installed \cup {t}
                /\ loading' = FALSE
                /\ pc' = [pc EXCEPT ![t] = "done"]
                /\ UNCHANGED <<geminiService, mounted, imagePreview,
                               geminiLoading, geminiError, imageUrl, alerted,
                               file, reading, latest, remTask, invoked,
                               probeFailed, direct, visitor>>

\* the image fails to load: img.onerror has no handler, so the promise
\* processFile awaits never settles
imgOnerror(t) ==
    /\ pc[t] = "probe"
    /\ pc' = [pc EXCEPT ![t] = "hung"]
    /\ probeFailed' = probeFailed \cup {t}
    /\ UNCHANGED <<geminiService, mounted, imagePreview, analysis, loading,
                   geminiLoading, geminiError, imageUrl, alerted, file,
                   reading, latest, recTask, remTask, installed, invoked,
                   direct, visitor>>

\* a settlement whose failure branch also drops the record
detectAIImageSettledRetracting(t, env) ==
    /\ pc[t] = "remote"
    /\ LET r == RemoteOutcome[geminiService, env]
       IN  IF r.ok
           THEN /\ analysis' = IF analysis # NULL
                               THEN [analysis EXCEPT
                                        !.geminiAnalysis = r.value]
                               ELSE analysis
                /\ remTask' = IF analysis # NULL THEN t ELSE remTask
                /\ geminiError' = geminiError
           ELSE /\ geminiError' = r.message
                /\ analysis' = NULL
                /\ remTask' = remTask
    /\ geminiLoading' = FALSE
    /\ pc' = [pc EXCEPT ![t] = "done"]
    /\ UNCHANGED <<geminiService, mounted,
                   imagePreview, loading, imageUrl, alerted,
                   file, reading, latest, recTask, installed, invoked,
                   probeFailed, direct, visitor>>

\* a settlement whose success branch rebuilds the record around the verdict
detectAIImageSettledRebuilding(t, env) ==
    /\ pc[t] = "remote"
    /\ LET r == RemoteOutcome[geminiService, env]
       IN  IF r.ok
           THEN /\ analysis' = [InitialAnalysis[file[t]] EXCEPT
                                    !.aiIndicators = <<>>,
                                    !.geminiAnalysis = r.value]
                /\ remTask' = t
                /\ geminiError' = geminiError
           ELSE /\ geminiError' = r.message
                /\ UNCHANGED <<analysis, remTask>>
    /\ geminiLoading' = FALSE
    /\ pc' = [pc EXCEPT ![t] = "done"]
    /\ UNCHANGED <<geminiService, mounted,
                   imagePreview, loading, imageUrl, alerted,
                   file, reading, latest, recTask, installed, invoked,
                   probeFailed, direct, visitor>>

\* detectAIImage(file) settled: the inner try / catch / finally
detectAIImageSettled(t, env) ==
    /\ pc[t] = "remote"
    /\ LET r == RemoteOutcome[geminiService, env]
       IN  IF r.ok
           THEN /\ analysis' = IF analysis # NULL
                               THEN [analysis EXCEPT
                                        !.geminiAnalysis = r.value]
                               ELSE analysis
                /\ remTask' = IF analysis # NULL THEN t ELSE remTask
                /\ geminiError' = geminiError
           ELSE /\ geminiError' = r.message
                /\ UNCHANGED <<analysis, remTask>>
    /\ geminiLoading' = FALSE
    /\ pc' = [pc EXCEPT ![t] = "done"]
    /\ UNCHANGED <<geminiService, mounted,
                   imagePreview, loading, imageUrl, alerted,
                   file, reading, latest, recTask, installed, invoked,
                   probeFailed, direct, visitor>>

\* The analysis pipeline: the handlers and the continuations of processFile.
\* The events of the preview FileReader, which read and write nothing but
\* imagePreview and reading, are added in NextPreview.
Next ==
    \/ \E t \in Tasks, f \in LocalFiles : handleFileUploadEarlier(t, f)
    \/ \E t \in Tasks : imgOnloadEarlier(t)
    \/ \E t \in Tasks, f \in LocalFiles : handleFileUpload(t, f)
    \/ \E t \in Tasks, f \in LocalFiles : handlePaste(t, f)
    \/ \E t \in Tasks, f \in LocalFiles : handleGlobalDrop(t, f)
    \/ \E v \in UrlTexts : setImageUrl(v)
    \/ \E t \in Tasks : handleUrlUpload(t)
    \/ \E t \in Tasks : fetchResolved(t)
    \/ \E t \in Tasks : fetchFailed(t)
    \/ \E t \in Tasks, c \in Contents : blobResolved(t, c)
    \/ \E t \in Tasks : arrayBufferResolved(t)
    \/ \E t \in Tasks : metadataFailed(t)
    \/ \E t \in Tasks : imgOnload(t)
    \/ \E t \in Tasks : imgOnerror(t)
    \/ \E t \in Tasks, env \in RemoteEnvs : detectAIImageSettled(t, env)

Spec == Init /\ [][Next]_vars

\* The whole component, preview included.
NextPreview ==
    \/ Next
    \/ \E t \in Tasks : readerOnload(t)
    \/ \E t \in Tasks : readerOnerror(t)

SpecPreview == Init /\ [][NextPreview]_vars

(***************************************************************************)
(* Direct calls of the remote verifier: detectAIImage called on a service  *)
(* built from any key, against every environment and reply of the model.   *)
(***************************************************************************)
Bodies ==
    { BodyFull, BodyPartial, BodyEmpty, BodyOver, BodyBlank, BodyNull,
      BodyNumber, BodyTicks, BodyPretty, BodyPadded, BodyProse, BodyCut }

\* the bodies that are JSON documents
JSONBodies == {b \in Bodies : JSONParse(b).ok}

\* a call is described by what it meets: a failing encoder, a failing
\* request, or a reply made of a body and the fence around it; and by how
\* far it has come: "called", or "requested" once imageToBase64 has
\* resolved and generateContent has been called
Calls ==
    [kind : {"encode"}, stage : {"called"},
     message : { <<"The file could not be read">> }]
      \cup [kind : {"net"}, stage : {"called"},
            message :
                { <<"fetch failed">>,
                  <<"[GoogleGenerativeAI Error]: Error fetching: [503 ] overloaded">> }]
      \cup [kind : {"reply"}, stage : {"called"}, fence : FenceKinds,
            body : Bodies]

EnvOf(c) ==
    CASE c.kind = "encode" ->
            [encode |-> c.message, net |-> NoText, text |-> <<>>]
      [] c.kind = "net" ->
            [encode |-> NoText, net |-> c.message, text |-> <<>>]
      [] c.kind = "reply" ->
            [encode |-> NoText, net |-> NoText,
             text |-> Fenced(c.fence, c.body)]

DirectOutcome ==
    [s \in Services, c \in Calls |-> detectAIImage(s, EnvOf(c))]

app ==
    <<geminiService, mounted, imagePreview, analysis, loading, geminiLoading,
      geminiError, imageUrl, alerted, pc, file, reading, latest, recTask,
      remTask, installed, invoked, probeFailed>>

\* geminiService.detectAIImage(file) is called
detectAIImageCalled(c) ==
    /\ call = NULL
    /\ call' = c
    /\ result' = NULL
    /\ UNCHANGED <<app, visitor>>

\* the FileReader of imageToBase64 has loaded: the continuation of
\* await this.imageToBase64(file)  builds the prompt, calls generateContent
\* and waits for it
imageToBase64Resolved ==
    /\ call # NULL
    /\ call.kind \in {"net", "reply"}
    /\ call.stage = "called"
    /\ result = NULL
    /\ isConfigured(geminiService)
    /\ call' = [call EXCEPT !.stage = "requested"]
    /\ UNCHANGED <<app, result, visitor>>

\* the promise settles: in the turn of the call when the service is not
\* configured, in the turn of the FileReader when it fails, and otherwise
\* in the continuation of  await this.model.generateContent(...)
detectAIImageReturned ==
    /\ call # NULL
    /\ call.kind \in {"encode", "net", "reply"}
    /\ result = NULL
    /\ \/ ~isConfigured(geminiService)
       \/ call.kind = "encode"
       \/ call.stage = "requested"
    /\ result' = DirectOutcome[geminiService,
                               [call EXCEPT !.stage = "called"]]
    /\ UNCHANGED <<app, call, visitor>>

\* the caller is done with the result
detectAIImageForgotten ==
    /\ result # NULL
    /\ call' = NULL
    /\ result' = NULL
    /\ UNCHANGED <<app, visitor>>

NextVerify ==
    \/ \E c \in Calls : detectAIImageCalled(c)
    \/ imageToBase64Resolved
    \/ detectAIImageReturned
    \/ detectAIImageForgotten

SpecVerify == Init /\ [][NextVerify]_vars


(***************************************************************************)
(* The service object beside the component (SpecService): the credential   *)
(* read by the constructor is kept in call, and isConfigured() can be      *)
(* asked at any moment of the pipeline.                                    *)
(***************************************************************************)

\* export const geminiService = new GeminiService()
InitService ==
    /\ InitApp
    /\ \E m \in {"App.tsx", "part_001"} : mounted = m
    /\ InitVisitorCounter
    /\ \E k \in ApiKeys :
          /\ call = [kind |-> "construct", apiKey |-> k]
          /\ geminiService = GeminiService(k)
    /\ result = NULL

\* geminiService.isConfigured() returns
isConfiguredReturned ==
    /\ call # NULL
    /\ call.kind = "construct"
    /\ result' = Bool(isConfigured(geminiService))
    /\ UNCHANGED <<app, call, visitor>>

NextService == Next \/ isConfiguredReturned

SpecService == InitService /\ [][NextService]_vars

(***************************************************************************)
(* Properties of the analysis pipeline (Spec).                             *)
(***************************************************************************)

\* C1: a record never carries the remote verdict of another file: when the
\* current record has a remote field, the analysis whose verdict it is
\* worked on the file the record was built from.
C1_VerdictBelongsToRecord ==
    (analysis # NULL /\ analysis.geminiAnalysis # NULL)
        => file[remTask] = file[recTask]

\* C2: once processFile has been started for a file, the record slot never
\* holds a record built from a file whose processFile started earlier: the
\* current record is built from the file of the latest processFile.
C2_RecordIsOfLatestFile ==
    analysis # NULL => file[recTask] = file[latest]

\* C3: the step in which an analysis calls detectAIImage leaves its own
\* first snapshot installed: the record of that analysis, without a remote
\* field, with loading cleared.
C3_SnapshotBeforeVerifier ==
    [][\A t \in Tasks :
          (t \in invoked' /\ t \notin invoked)
              => /\ t \in installed'
                 /\ recTask' = t
                 /\ analysis' = InitialAnalysis[file[t]]
                 /\ analysis'.geminiAnalysis = NULL
                 /\ ~loading']_vars

C3_Witness ==
    \E t \in Tasks :
        /\ pc[t] = "remote"
        /\ t \in invoked
        /\ recTask = t
        /\ analysis # NULL
        /\ ~loading

\* C4: when the verification of the file of the current record fails, the
\* message goes to geminiError and the record stays as it was, present,
\* with its heuristic verdict and indicators.
C4_FailureKeepsRecord ==
    [][\A t \in Tasks, env \in RemoteEnvs :
          ( /\ detectAIImageSettled(t, env)
            /\ ~RemoteOutcome[geminiService, env].ok
            /\ analysis # NULL
            /\ recTask = t )
              => /\ geminiError' # NoText
                 /\ geminiError' = RemoteOutcome[geminiService, env].message
                 /\ analysis' # NULL
                 /\ analysis' = analysis]_vars

C4_Witness ==
    \E t \in Tasks :
        /\ pc[t] = "done"
        /\ t \in invoked
        /\ recTask = t
        /\ latest = t
        /\ geminiError # NoText
        /\ analysis # NULL
        /\ analysis.geminiAnalysis = NULL

\* C5: a failure of file.arrayBuffer() or of the metadata decoder raises
\* an alert, clears loading, leaves the record slot alone and calls no
\* verifier; and an analysis that alerted is over, never set a record and
\* never called the verifier.
C5_DecodeFailureIsFatal ==
    /\ [](\A t \in alerted :
              /\ pc[t] = "done"
              /\ t \notin installed
              /\ t \notin invoked
              /\ recTask # t
              /\ remTask # t)
    /\ [][\A t \in Tasks :
              metadataFailed(t)
                  => /\ t \in alerted'
                     /\ ~loading'
                     /\ analysis' = analysis
                     /\ recTask' = recTask
                     /\ installed' = installed
                     /\ invoked' = invoked
                     /\ geminiLoading' = geminiLoading]_vars

C5_Witness ==
    \E t \in Tasks :
        /\ t \in alerted
        /\ file[t] # NULL
        /\ latest = t
        /\ analysis = NULL
        /\ ~loading

\* C6: an analysis whose image failed to load has raised an alert and is
\* over (it is not left waiting for the probe).
C6_ProbeFailureAlerts ==
    \A t \in probeFailed : t \in alerted /\ pc[t] = "done"

\* C7: with no client or no model in the service, no analysis calls
\* detectAIImage, geminiLoading is never set, geminiError stays empty, and
\* every analysis that ended without an alert has set its record.
C7_UnconfiguredSkipsVerifier ==
    (geminiService.genAI = NULL \/ geminiService.model = NULL)
        => /\ invoked = {}
           /\ \A t \in Tasks : pc[t] # "remote"
           /\ ~geminiLoading
           /\ geminiError = NoText
           /\ \A t \in Tasks :
                  (pc[t] = "done" /\ t \notin alerted) => t \in installed

C7_Witness ==
    /\ geminiService.genAI = NULL
    /\ \E t \in Tasks :
          /\ pc[t] = "done"
          /\ t \in installed
          /\ recTask = t
          /\ analysis = InitialAnalysis[file[t]]

(***************************************************************************)
(* Properties of the remote verifier (SpecVerify).                         *)
(***************************************************************************)

\* the reply of a call, as JSON.parse sees it
Parsed(c) == JSONParse(cleanedText(Fenced(c.fence, c.body)))

\* the message msg contains the message inner
Carries(msg, inner) ==
    \E i \in 1..Len(msg) :
        /\ i + Len(inner) - 1 <= Len(msg)
        /\ SubSeq(msg, i, i + Len(inner) - 1) = inner

\* C8: detectAIImage on a service that is not configured fails with the
\* configuration error, having encoded nothing and requested nothing.
C8_UnconfiguredCallFails ==
    (~isConfigured(geminiService) /\ result # NULL)
        => /\ ~result.ok
           /\ result.message = NotConfiguredMessage
           /\ ~result.encoded
           /\ ~result.requested

C8_Witness ==
    /\ ~isConfigured(geminiService)
    /\ result # NULL
    /\ call.kind = "reply"
    /\ call.body = BodyFull

\* C9 as stated: every failure of a configured verification (encoding,
\* request, reply that is not JSON) is an error whose message carries the
\* message of the underlying error, and a reply that is not JSON gives no
\* verdict.
C9_EveryFailureCarriesMessage ==
    (isConfigured(geminiService) /\ result # NULL)
        => /\ call.kind \in {"encode", "net"}
                => ~result.ok /\ Carries(result.message, call.message)
           /\ (call.kind = "reply" /\ ~Parsed(call).ok)
                => ~result.ok
                   /\ Carries(result.message, Parsed(call).message)

\* C9, amended: a failed request and a reply that is not JSON give the
\* error "Failed to analyze image: " followed by the underlying message; a
\* failed encoding gives the fixed error "Failed to analyze image with
\* Gemini", which does not carry it; a reply that is not JSON gives no
\* verdict.
C9_FailuresSurface ==
    (isConfigured(geminiService) /\ result # NULL)
        => /\ call.kind = "net"
                => ~result.ok
                   /\ result.message = FailedPrefix \o call.message
           /\ (call.kind = "reply" /\ ~Parsed(call).ok)
                => ~result.ok
                   /\ result.message = FailedPrefix \o Parsed(call).message
           /\ call.kind = "encode"
                => ~result.ok
                   /\ result.message = FailedGeneric
                   /\ ~Carries(result.message, call.message)

C9_Witness ==
    /\ isConfigured(geminiService)
    /\ result # NULL
    /\ call.kind = "reply"
    /\ call.body = BodyProse
    /\ call.fence = "json"
    /\ ~result.ok

\* C10: a JSON body inside a json fence or a plain fence settles to what
\* the body alone settles to, verdict or failure.
C10_FenceInsensitive ==
    (result # NULL /\ call.kind = "reply" /\ call.body \in JSONBodies)
        => result = detectAIImage(geminiService,
                                  EnvOf([call EXCEPT !.fence = "none"]))

C10_Witness ==
    /\ isConfigured(geminiService)
    /\ result # NULL
    /\ call.kind = "reply"
    /\ call.fence = "json"
    /\ call.body = BodyFull
    /\ result.ok
    /\ result.value.confidence = Num(85)


\* the keys of a verdict and their defaults
VerdictKeys == {"isAIGenerated", "confidence", "reasoning", "visualIndicators"}

DefaultOf(key) ==
    CASE key = "isAIGenerated" -> Bool(FALSE)
      [] key = "confidence" -> Num(0)
      [] key = "reasoning" -> Str(NoReasoning)
      [] key = "visualIndicators" -> Arr(<<>>)

\* the call got a reply that parses to a JSON object
ObjectReply ==
    /\ isConfigured(geminiService)
    /\ result # NULL
    /\ call.kind = "reply"
    /\ Parsed(call).ok
    /\ Parsed(call).value.t = "object"

\* C11 as stated: for a reply that parses to an object, a key that is
\* missing comes back as its default and a key that is present comes back
\* with the value of the reply.
C11_PresentKeysReturned ==
    ObjectReply
        => /\ result.ok
           /\ \A key \in VerdictKeys :
                 LET fields == Parsed(call).value.fields
                 IN  result.value[key] =
                         IF key \in DOMAIN fields THEN fields[key]
                         ELSE DefaultOf(key)

\* C11, amended: a key that is missing, or present with a falsy value
\* (false, 0, the empty string, null), comes back as its default; a key
\* present with any other value comes back with the value of the reply.
C11_Defaulting ==
    ObjectReply
        => /\ result.ok
           /\ \A key \in VerdictKeys :
                 LET fields == Parsed(call).value.fields
                 IN  result.value[key] =
                         IF key \in DOMAIN fields /\ Truthy(fields[key])
                         THEN fields[key]
                         ELSE DefaultOf(key)

C11_Witness ==
    /\ ObjectReply
    /\ call.body = BodyBlank
    /\ result.ok
    /\ result.value.reasoning = Str(NoReasoning)
    /\ result.value.confidence = Num(0)

\* C12: the confidence of every verdict detectAIImage returns is an
\* integer from 0 to 100.
C12_ConfidenceInRange ==
    (result # NULL /\ call.kind = "reply" /\ result.ok)
        => /\ result.value.confidence.t = "number"
           /\ result.value.confidence.n \in 0..100


(***************************************************************************)
(* Direct calls of the heuristic classifier: detectAIGeneration applied    *)
(* to metadata mappings in which each key is absent, a raw value, or a tag *)
(* whose description is missing, empty, a string or another value.         *)
(***************************************************************************)
\* descriptions: one keyword ("midjourney"), two keywords ("ai" and
\* "generated"), one keyword inside a word ("ai" in "Captain"), none
OneKeyword ==
    <<"M", "i", "d", "j", "o", "u", "r", "n", "e", "y", " ", "v", "5">>
TwoKeywords ==
    <<"A", "I", " ", "G", "e", "n", "e", "r", "a", "t", "e", "d">>
InnerKeyword ==
    <<"C", "a", "p", "t", "a", "i", "n">>
NoKeyword ==
    <<"C", "a", "n", "o", "n">>

SoftwareValues ==
    { Undef, Str(OneKeyword), Tag(Str(<<>>)), Tag(Str(OneKeyword)),
      Tag(Str(TwoKeywords)), Tag(Str(NoKeyword)), Tag(Num(7)) }
ArtistValues == { Undef, Tag(Str(InnerKeyword)), Tag(Undef) }
UserCommentValues == { Undef, JNull, Tag(Str(TwoKeywords)) }
ImageDescriptionValues ==
    { Undef, Tag(Str(<<>>)), Tag(Str(OneKeyword)), Tag(Str(TwoKeywords)),
      Tag(Str(NoKeyword)), Tag(Num(0)), Tag(Arr(<<>>)) }
\* the keys that are only tested for truthiness
DreamValues == { Undef, Tag(Str(NoKeyword)) }
PromptValues == { Undef, Str(<<>>), Str(NoKeyword) }
ParametersValues == { Undef, Tag(Str(NoKeyword)) }
SdMetadataValues == { Undef, Str(NoKeyword) }
\* a key the classifier does not read
MakeValues == { Undef, Tag(Str(OneKeyword)), Str(TwoKeywords) }

\* a call of detectAIGeneration(metadata) with any of these mappings
InitClassify ==
    /\ InitApp
    /\ mounted = "part_001"
    /\ InitVisitorCounter
    /\ \E sw \in SoftwareValues, ar \in ArtistValues,
          uc \in UserCommentValues, id \in ImageDescriptionValues,
          dr \in DreamValues, pr \in PromptValues, pa \in ParametersValues,
          sd \in SdMetadataValues, mk \in MakeValues :
            call = [kind |-> "classify",
                    metadata |-> Meta(sw, ar, uc, id, dr, pr, pa, sd, mk)]
    /\ result = NULL

\* it returns, or throws
detectAIGenerationReturned ==
    /\ call # NULL
    /\ call.kind = "classify"
    /\ result = NULL
    /\ result' = detectAIGeneration(call.metadata)
    /\ UNCHANGED <<app, call, visitor>>

NextClassify == detectAIGenerationReturned

SpecClassify == InitClassify /\ [][NextClassify]_vars

\* The classifier called directly and the classifier called by processFile:
\* the two do not share state, so the behaviours of the one are not
\* interleaved with those of the other.
InitRecord == Init \/ InitClassify

NextRecord ==
    \/ call = NULL /\ Next
    \/ detectAIGenerationReturned

SpecRecord == InitRecord /\ [][NextRecord]_vars


(***************************************************************************)
(* Properties of the heuristic classifier (SpecClassify, SpecRecord).      *)
(***************************************************************************)

\* detectAIGeneration was called and returned a verdict
Verdict ==
    /\ call # NULL
    /\ call.kind = "classify"
    /\ result # NULL
    /\ ~result.threw

\* the description of a field is a string
HasText(m, key) == m[key].t = "tag" /\ m[key].description.t = "string"

\* the keywords contained in a description, lower-cased
Matches(d) ==
    {i \in 1..Len(aiKeywords) : includes(toLowerCase(d), aiKeywords[i])}

HasPrefix(s, p) == Len(s) >= Len(p) /\ SubSeq(s, 1, Len(p)) = p

\* the positions of the entries that begin with a label
Labelled(seq, label) == {i \in 1..Len(seq) : HasPrefix(seq[i], label)}

\* the positions of the entries equal to x
Occurrences(seq, x) == {i \in 1..Len(seq) : seq[i] = x}

LabelOf(key) ==
    CASE key = "Software" -> SoftwareLabel
      [] key = "Artist" -> ArtistLabel
      [] key = "UserComment" -> CommentLabel
      [] key = "ImageDescription" -> DescriptionLabel

\* C13: in every verdict of detectAIGeneration isAI is true exactly when
\* the indicators list is not empty, and every record in the record slot
\* has isAIGenerated true exactly when its aiIndicators list is not empty.
C13_FlagIffIndicators ==
    /\ Verdict => (result.isAI <=> Len(result.indicators) > 0)
    /\ analysis # NULL
          => (analysis.isAIGenerated <=> Len(analysis.aiIndicators) > 0)

C13_Witness ==
    /\ analysis # NULL
    /\ recTask \in installed
    /\ analysis.isAIGenerated
    /\ Len(analysis.aiIndicators) = 1

\* C14: a mapping with none of the eight recognised keys, whatever else it
\* holds, is classified as not AI with no indicator.
C14_NoRecognisedKey ==
    ( /\ call # NULL
      /\ call.kind = "classify"
      /\ result # NULL
      /\ \A key \in CheckedFields \cup
                     {"Dream", "prompt", "parameters", "sd-metadata"} :
             call.metadata[key] = Undef )
        => /\ ~result.threw
           /\ ~result.isAI
           /\ result.indicators = <<>>

C14_Witness ==
    /\ Verdict
    /\ \A key \in CheckedFields \cup
                    {"Dream", "prompt", "parameters", "sd-metadata"} :
           call.metadata[key] = Undef
    /\ call.metadata["Make"] = Tag(Str(OneKeyword))
    /\ ~result.isAI

\* C15: a checked field whose description contains a keyword once it is
\* lower-cased gives an indicator made of the label of the field and the
\* description as it was written, and isAI is true; a field whose
\* description is empty or contains no keyword gives no indicator.
C15_FieldIndicator ==
    Verdict
        => \A key \in CheckedFields :
              HasText(call.metadata, key)
                  => LET d == call.metadata[key].description.s
                     IN  IF Matches(d) # {}
                         THEN /\ Occurrences(result.indicators,
                                             LabelOf(key) \o d) # {}
                              /\ result.isAI
                         ELSE Labelled(result.indicators, LabelOf(key)) = {}

C15_Witness ==
    /\ Verdict
    /\ call.metadata["Software"] = Tag(Str(OneKeyword))
    /\ call.metadata["ImageDescription"] = Tag(Str(NoKeyword))
    /\ call.metadata["Artist"] = Undef
    /\ result.indicators[1] = SoftwareLabel \o OneKeyword
    /\ result.isAI

\* C16: "Contains AI generation parameters" is in the list, once, exactly
\* when Dream, prompt or parameters is truthy, and "Contains AI metadata
\* fields" is in the list, once, exactly when parameters, prompt or
\* sd-metadata is truthy.
C16_ParameterFlags ==
    Verdict
        => LET m == call.metadata
           IN  /\ Cardinality(Occurrences(result.indicators,
                                          GenerationParameters))
                     = IF Truthy(m["Dream"]) \/ Truthy(m["prompt"])
                            \/ Truthy(m["parameters"])
                       THEN 1 ELSE 0
               /\ Cardinality(Occurrences(result.indicators, MetadataFields))
                     = IF Truthy(m["parameters"]) \/ Truthy(m["prompt"])
                            \/ Truthy(m["sd-metadata"])
                       THEN 1 ELSE 0

C16_Witness ==
    /\ Verdict
    /\ Truthy(call.metadata["prompt"])
    /\ Truthy(call.metadata["parameters"])
    /\ Occurrences(result.indicators, GenerationParameters) # {}
    /\ Occurrences(result.indicators, MetadataFields) # {}

\* C17: a checked field contributes as many entries as there are keywords
\* in its lower-cased description, all of them the same string.
C17_EntryPerKeyword ==
    Verdict
        => \A key \in CheckedFields :
              HasText(call.metadata, key)
                  => LET d == call.metadata[key].description.s
                         own == Labelled(result.indicators, LabelOf(key))
                     IN  /\ Cardinality(own) = Cardinality(Matches(d))
                         /\ \A i \in own :
                               result.indicators[i] = LabelOf(key) \o d

C17_Witness ==
    /\ Verdict
    /\ call.metadata["Software"] = Tag(Str(TwoKeywords))
    /\ Len(result.indicators) >= 2
    /\ result.indicators[1] = SoftwareLabel \o TwoKeywords
    /\ result.indicators[2] = SoftwareLabel \o TwoKeywords

\* the place of an entry in the check order
GroupOf(entry) ==
    CASE HasPrefix(entry, SoftwareLabel) -> 1
      [] HasPrefix(entry, ArtistLabel) -> 2
      [] HasPrefix(entry, CommentLabel) -> 3
      [] entry = GenerationParameters -> 4
      [] HasPrefix(entry, DescriptionLabel) -> 5
      [] entry = MetadataFields -> 6
      [] OTHER -> 0

\* C18: the entries come in the check order: Software, Artist,
\* UserComment, the generation parameters, ImageDescription, the metadata
\* fields.
C18_CheckOrder ==
    Verdict
        => /\ \A i \in 1..Len(result.indicators) :
                 GroupOf(result.indicators[i]) # 0
           /\ \A i, j \in 1..Len(result.indicators) :
                 i < j => GroupOf(result.indicators[i])
                              <= GroupOf(result.indicators[j])

C18_Witness ==
    /\ Verdict
    /\ Len(result.indicators) = 8
    /\ GroupOf(result.indicators[1]) = 1
    /\ GroupOf(result.indicators[3]) = 2
    /\ GroupOf(result.indicators[4]) = 3
    /\ GroupOf(result.indicators[6]) = 4
    /\ GroupOf(result.indicators[7]) = 5
    /\ GroupOf(result.indicators[8]) = 6

\* C19: every call of detectAIGeneration returns a verdict.
C19_NeverThrows ==
    (call # NULL /\ call.kind = "classify" /\ result # NULL)
        => ~result.threw


(***************************************************************************)
(* Analytics proxy: api/visitor-count.  A request is described by the      *)
(* deployment it reaches (the two environment variables and the variant    *)
(* of the handler), its method and what runReport would answer.            *)
(***************************************************************************)
NaN == [t |-> "NaN"]

\* v?.[i]
OptionalAt(v, i) ==
    IF v.t = "array" /\ i <= Len(v.items) THEN v.items[i] ELSE Undef

\* v?.key
OptionalGet(v, key) ==
    IF v.t \in {"undefined", "null"} THEN Undef ELSE GetProperty(v, key)

Digits == {DigitChars[i] : i \in 1..10}

DigitValue(c) == CHOOSE d \in 0..9 : DigitChars[d + 1] = c

RECURSIVE DigitsValue(_)
DigitsValue(ds) ==
    IF ds = <<>> THEN 0
    ELSE 10 * DigitsValue(SubSeq(ds, 1, Len(ds) - 1))
           + DigitValue(ds[Len(ds)])

\* parseInt(s, 10) of a text without a sign: the leading digits, or NaN
parseInt(s) ==
    LET t == trimStart(s)
        others == {i \in 1..Len(t) : t[i] \notin Digits}
        ds == IF others = {} THEN t ELSE SubSeq(t, 1, Min(others) - 1)
    IN  IF ds = <<>> THEN NaN ELSE Num(DigitsValue(ds))

\* JSON.stringify of a body: NaN is written as null
Serialized(body) ==
    Obj([k \in DOMAIN body.fields |->
            IF body.fields[k] = NaN THEN JNull ELSE body.fields[k]])

\* module load: the client exists when the credentials are set and parse
analyticsDataClient(credentialsJson) ==
    IF Truthy(credentialsJson) /\ JSONParse(credentialsJson.s).ok
    THEN [credentials |-> JSONParse(credentialsJson.s).value]
    ELSE NULL

CorsHeaders ==
    ("Access-Control-Allow-Credentials" :> "true") @@
    ("Access-Control-Allow-Origin" :> "*") @@
    ("Access-Control-Allow-Methods" :> "GET,OPTIONS") @@
    ("Access-Control-Allow-Headers" :>
        "X-CSRF-Token, X-Requested-With, Accept, Accept-Version, Content-Length, Content-MD5, Content-Type, Date, X-Api-Version")

MockBody ==
    Obj(("activeUsers" :> Num(0)) @@ ("totalUsers" :> Num(0)) @@
        ("isMock" :> Bool(TRUE)) @@
        ("message" :>
            Str(<<"B", "a", "c", "k", "e", "n", "d", " ", "n", "o", "t", " ",
                  "c", "o", "n", "f", "i", "g", "u", "r", "e", "d", " ", "w",
                  "i", "t", "h", " ", "G", "A", " ", "c", "r", "e", "d", "e",
                  "n", "t", "i", "a", "l", "s">>)))

ErrorBody ==
    Obj(("error" :> Str(<<"F", "a", "i", "l", "e", "d", " ", "t", "o", " ",
                          "f", "e", "t", "c", "h", " ", "a", "n", "a", "l",
                          "y", "t", "i", "c", "s", " ", "d", "a", "t", "a">>)))

\* the metric a variant asks for and the period it reports
MetricOf(variant) == IF variant = "total" THEN "totalUsers" ELSE "activeUsers"
PeriodOf(variant) ==
    IF variant = "total"
    THEN <<"a", "l", "l", "-", "t", "i", "m", "e">>
    ELSE <<"3", "0", "d">>

\* response.rows?.[0]?.metricValues?.[0]?.value || "0"
FirstValue(response) ==
    OrElse(OptionalGet(
               OptionalAt(OptionalGet(OptionalAt(GetProperty(response, "rows"),
                                                 1),
                                      "metricValues"),
                          1),
               "value"),
           Str(<<"0">>))

\* a response whose CORS headers are set on the success paths only
ResponseCorsOnSuccess(status, body, reports) ==
    [status |-> status, body |-> body,
     headers |-> IF status = 500 THEN [k \in {} |-> ""] ELSE CorsHeaders,
     responses |-> 1, reports |-> reports]

\* a response: its status, its body (Undef after end()), its headers, how
\* many responses were sent and how many reports were run
Response(status, body, reports) ==
    [status |-> status, body |-> body, headers |-> CorsHeaders,
     responses |-> 1, reports |-> reports]

\* a handler that runs the report whatever the configuration
handlerUnguarded(c) ==
    IF c.method = "OPTIONS" THEN Response(200, Undef, 0)
    ELSE IF analyticsDataClient(c.credentialsJson) = NULL
    THEN Response(500, Serialized(ErrorBody), 0)
    ELSE IF c.report.threw
    THEN Response(500, Serialized(ErrorBody), 1)
    ELSE Response(200,
                  Serialized(Obj((MetricOf(c.variant) :>
                                     parseInt(FirstValue(c.report.response).s))
                                 @@ ("period" :> Str(PeriodOf(c.variant))))),
                  1)

\* a handler that tests the configuration before the method
handlerConfigurationFirst(c) ==
    IF analyticsDataClient(c.credentialsJson) = NULL
       \/ ~Truthy(c.propertyId)
    THEN Response(200, Serialized(MockBody), 0)
    ELSE IF c.method = "OPTIONS" THEN Response(200, Undef, 0)
    ELSE IF c.report.threw
    THEN Response(500, Serialized(ErrorBody), 1)
    ELSE Response(200,
                  Serialized(Obj((MetricOf(c.variant) :>
                                     parseInt(FirstValue(c.report.response).s))
                                 @@ ("period" :> Str(PeriodOf(c.variant))))),
                  1)

\* a handler that falls back to the mock payload when the report fails
handlerMockOnFailure(c) ==
    IF c.method = "OPTIONS" THEN Response(200, Undef, 0)
    ELSE IF analyticsDataClient(c.credentialsJson) = NULL
            \/ ~Truthy(c.propertyId)
            \/ c.report.threw
    THEN Response(200, Serialized(MockBody), 0)
    ELSE Response(200,
                  Serialized(Obj((MetricOf(c.variant) :>
                                     parseInt(FirstValue(c.report.response).s))
                                 @@ ("period" :> Str(PeriodOf(c.variant))))),
                  1)

\* handler(req, res)
handler(c) ==
    IF c.method = "OPTIONS" THEN Response(200, Undef, 0)
    ELSE IF analyticsDataClient(c.credentialsJson) = NULL
            \/ ~Truthy(c.propertyId)
    THEN Response(200, Serialized(MockBody), 0)
    ELSE IF c.report.threw
    THEN Response(500, Serialized(ErrorBody), 1)
    ELSE Response(200,
                  Serialized(Obj((MetricOf(c.variant) :>
                                     parseInt(FirstValue(c.report.response).s))
                                 @@ ("period" :> Str(PeriodOf(c.variant))))),
                  1)

\* process.env.GOOGLE_APPLICATION_CREDENTIALS_JSON
CredentialTexts ==
    { Undef, Str(<<>>), Str(BodyProse), Str(BodyCut), Str(BodyEmpty) }
\* process.env.GA_PROPERTY_ID
PropertyIds == { Undef, Str(<<>>), Str(<<"1", "2", "3", "4">>) }
Variants == {"total", "active"}
Methods == {"GET", "POST", "HEAD", "OPTIONS"}

Row(metricValues) == Obj(("metricValues" :> metricValues))

\* what runReport answers: it throws, or resolves to [response]
Reports ==
    { [threw |-> TRUE, response |-> Undef] }
      \cup { [threw |-> FALSE, response |-> Obj(<<>>)],
             [threw |-> FALSE, response |-> Obj(("rows" :> JNull))],
             [threw |-> FALSE, response |-> Obj(("rows" :> Arr(<<>>)))],
             [threw |-> FALSE,
              response |-> Obj(("rows" :> Arr(<<Row(Arr(<<>>))>>)))] }
      \cup { [threw |-> FALSE,
              response |->
                  Obj(("rows" :>
                         Arr(<<Row(Arr(<<Obj(("value" :>
                                                Str(text)))>>))>>)))] :
               text \in { <<"4", "2">>, <<"0">>, <<>>, <<"n", "/", "a">> } }

InitProxy ==
    /\ InitApp
    /\ mounted = "part_001"
    /\ InitVisitorCounter
    /\ \E cr \in CredentialTexts, id \in PropertyIds, v \in Variants,
          m \in Methods, r \in Reports :
            call = [kind |-> "request", stage |-> "received",
                    credentialsJson |-> cr, propertyId |-> id,
                    variant |-> v, method |-> m, report |-> r]
    /\ result = NULL

\* the handler is called for a request that reaches the report: the
\* headers are set, runReport is called and the handler waits for it
runReportCalled ==
    /\ call # NULL
    /\ call.kind = "request"
    /\ call.stage = "received"
    /\ result = NULL
    /\ handler(call).reports = 1
    /\ call' = [call EXCEPT !.stage = "report"]
    /\ UNCHANGED <<app, result, visitor>>

\* the handler has answered: in the turn of the call when no report is
\* run, and otherwise in the continuation of  await runReport(...)
handlerResponded ==
    /\ call # NULL
    /\ call.kind = "request"
    /\ result = NULL
    /\ handler(call).reports = 0 \/ call.stage = "report"
    /\ result' = handler(call)
    /\ UNCHANGED <<app, call, visitor>>

NextProxy == runReportCalled \/ handlerResponded

SpecProxy == InitProxy /\ [][NextProxy]_vars

(***************************************************************************)
(* The VisitorCounter component (SpecCounter): on mount it fetches          *)
(* /api/visitor-count once.  The fetch is answered by the proxy above, by   *)
(* a static server that knows no such route, or not at all.                 *)
(***************************************************************************)

\* a catch block that only logs
NoFallback(variant) == JNull

\* the payload set by the catch block
MockVisitorData(variant) ==
    Obj((MetricOf(variant) :> Num(1234)) @@
        ("period" :> Str(PeriodOf(variant))) @@
        ("isMock" :> Bool(TRUE)))

\* setData({ ..., isMock: true }) in the catch block
FallbackData(variant) == MockVisitorData(variant)

\* what the fetch meets: no answer, an answer of the proxy, or a server
\* that answers with a page of text
Networks ==
    { [kind |-> "rejected"] }
      \cup { [kind |-> "proxy", response |-> handler(c)] :
                c \in [kind : {"request"},
                       credentialsJson : CredentialTexts,
                       propertyId : PropertyIds, variant : Variants,
                       method : {"GET"}, report : Reports] }
      \cup { [kind |-> "static", status |-> st, text |-> BodyProse] :
                st \in {200, 404, 503} }

\* the Response the fetch resolves to: its status and what json() gives
ResponseOf(n) ==
    IF n.kind = "proxy"
    THEN LET r == n.response
         IN  [status |-> r.status,
              json |-> IF r.body = Undef
                       THEN [ok |-> FALSE, value |-> Undef]
                       ELSE [ok |-> TRUE, value |-> r.body]]
    ELSE [status |-> n.status,
          json |-> IF JSONParse(n.text).ok
                   THEN [ok |-> TRUE, value |-> JSONParse(n.text).value]
                   ELSE [ok |-> FALSE, value |-> Undef]]

\* response.ok
Ok(response) == response.status \in 200..299

InitCounter ==
    /\ InitApp
    /\ mounted = "part_001"
    /\ InitVisitorCounter
    /\ \E v \in Variants, n \in Networks :
          call = [kind |-> "fetch", variant |-> v, network |-> n]
    /\ result = NULL

\* the catch block, then finally
fetchVisitorCountCatch ==
    /\ visitorData' = FallbackData(call.variant)
    /\ visitorLoading' = FALSE
    /\ visitorPc' = "done"
    /\ UNCHANGED visitorError

\* useEffect: fetchVisitorCount(), up to await fetch(...)
fetchVisitorCount ==
    /\ call # NULL
    /\ call.kind = "fetch"
    /\ visitorPc = "mounted"
    /\ visitorPc' = "fetch"
    /\ UNCHANGED <<app, direct, visitorData, visitorLoading, visitorError>>

\* fetch(...) settled: rejected, or resolved with a Response
fetchSettled ==
    /\ visitorPc = "fetch"
    /\ IF call.network.kind = "rejected"
          \/ ~Ok(ResponseOf(call.network))
       THEN fetchVisitorCountCatch
       ELSE /\ visitorPc' = "json"
            /\ UNCHANGED <<visitorData, visitorLoading, visitorError>>
    /\ UNCHANGED <<app, direct>>

\* response.json() settled
jsonSettled ==
    /\ visitorPc = "json"
    /\ LET j == ResponseOf(call.network).json
       IN  IF j.ok
           THEN /\ visitorData' = j.value
                /\ visitorLoading' = FALSE
                /\ visitorPc' = "done"
                /\ UNCHANGED visitorError
           ELSE fetchVisitorCountCatch
    /\ UNCHANGED <<app, direct>>

NextCounter ==
    \/ fetchVisitorCount
    \/ fetchSettled
    \/ jsonSettled

\* the effect runs after mount and a pending promise settles
SpecCounter == InitCounter /\ [][NextCounter]_vars /\ WF_vars(NextCounter)

(***************************************************************************)
(* Properties of the analytics proxy (SpecProxy).                          *)
(***************************************************************************)

\* the deployment lacks usable credentials or a property id
Misconfigured(c) ==
    \/ c.credentialsJson = Undef
    \/ c.credentialsJson = Str(<<>>)
    \/ ~JSONParse(c.credentialsJson.s).ok
    \/ c.propertyId = Undef
    \/ c.propertyId = Str(<<>>)

\* C20: a misconfigured proxy answers every request other than OPTIONS
\* with status 200 and the mock payload (isMock true, totalUsers 0,
\* activeUsers 0) and runs no report.
C20_MockWhenMisconfigured ==
    ( /\ call # NULL
      /\ call.kind = "request"
      /\ result # NULL
      /\ call.method # "OPTIONS"
      /\ Misconfigured(call) )
        => /\ result.status = 200
           /\ result.body.t = "object"
           /\ result.body.fields["isMock"] = Bool(TRUE)
           /\ result.body.fields["totalUsers"] = Num(0)
           /\ result.body.fields["activeUsers"] = Num(0)
           /\ result.reports = 0
           /\ result.responses = 1

C20_Witness ==
    /\ call # NULL
    /\ call.kind = "request"
    /\ result # NULL
    /\ call.method = "GET"
    /\ call.credentialsJson = Str(BodyCut)
    /\ call.propertyId = Str(<<"1", "2", "3", "4">>)
    /\ ~call.report.threw
    /\ result.status = 200
    /\ result.body = MockBody

\* C22: an OPTIONS request is answered with status 200 and an empty body,
\* whatever the configuration, and no report is run.
C22_OptionsEmpty ==
    ( /\ call # NULL
      /\ call.kind = "request"
      /\ result # NULL
      /\ call.method = "OPTIONS" )
        => /\ result.status = 200
           /\ result.body = Undef
           /\ result.reports = 0
           /\ result.responses = 1

C22_Witness ==
    /\ call # NULL
    /\ call.kind = "request"
    /\ result # NULL
    /\ call.method = "OPTIONS"
    /\ Misconfigured(call)
    /\ call.report.threw
    /\ result.status = 200
    /\ result.body = Undef

\* C23: every response of the proxy (OPTIONS, mock, success and 500)
\* carries the header Access-Control-Allow-Origin with the value "*".
C23_CorsOnEveryResponse ==
    ( /\ call # NULL
      /\ call.kind = "request"
      /\ result # NULL )
        => /\ "Access-Control-Allow-Origin" \in DOMAIN result.headers
           /\ result.headers["Access-Control-Allow-Origin"] = "*"

C23_Witness ==
    /\ call # NULL
    /\ call.kind = "request"
    /\ result # NULL
    /\ result.status = 500
    /\ "Access-Control-Allow-Origin" \in DOMAIN result.headers
    /\ result.headers["Access-Control-Allow-Origin"] = "*"

\* the report resolved without a first row
NoRows(response) ==
    \/ "rows" \notin DOMAIN response.fields
    \/ response.fields["rows"] = JNull
    \/ response.fields["rows"] = Arr(<<>>)

\* C30: every request gets exactly one response, with status 200 or 500;
\* a configured proxy whose report call fails answers 500 with the error
\* body and not the mock payload; a report that succeeds with no rows
\* gives the count 0.
C30_OneResponse ==
    ( /\ call # NULL
      /\ call.kind = "request"
      /\ result # NULL )
        => /\ result.responses = 1
           /\ result.status \in {200, 500}
           /\ ( /\ call.method # "OPTIONS"
                /\ ~Misconfigured(call)
                /\ call.report.threw )
                  => /\ result.status = 500
                     /\ result.body = ErrorBody
                     /\ "isMock" \notin DOMAIN result.body.fields
           /\ ( /\ call.method # "OPTIONS"
                /\ ~Misconfigured(call)
                /\ ~call.report.threw
                /\ NoRows(call.report.response) )
                  => /\ result.status = 200
                     /\ result.body.fields[MetricOf(call.variant)] = Num(0)

C30_Witness ==
    /\ call # NULL
    /\ call.kind = "request"
    /\ result # NULL
    /\ call.method = "GET"
    /\ ~Misconfigured(call)
    /\ call.report.threw
    /\ result.status = 500
    /\ result.body = ErrorBody

(***************************************************************************)
(* Further properties of the analysis pipeline (Spec, SpecPreview).        *)
(***************************************************************************)

\* C24: when a verification succeeds while a record is current, the record
\* afterwards has the returned verdict as its geminiAnalysis and the same
\* fileName, fileSize, dimensions, metadata, isAIGenerated and aiIndicators
\* as before; when no record is current, none is current afterwards.
C24_SuccessChangesRemoteFieldOnly ==
    [][\A t \in Tasks, env \in RemoteEnvs :
          ( /\ detectAIImageSettled(t, env)
            /\ RemoteOutcome[geminiService, env].ok )
              => IF analysis # NULL
                 THEN /\ analysis' # NULL
                      /\ analysis'.geminiAnalysis =
                            RemoteOutcome[geminiService, env].value
                      /\ analysis'.fileName = analysis.fileName
                      /\ analysis'.fileSize = analysis.fileSize
                      /\ analysis'.dimensions = analysis.dimensions
                      /\ analysis'.metadata = analysis.metadata
                      /\ analysis'.isAIGenerated = analysis.isAIGenerated
                      /\ analysis'.aiIndicators = analysis.aiIndicators
                 ELSE analysis' = NULL]_vars

C24_Witness ==
    \E t \in Tasks :
        /\ pc[t] = "done"
        /\ remTask = t
        /\ analysis # NULL
        /\ analysis.geminiAnalysis # NULL
        /\ analysis.aiIndicators # <<>>

\* C26: geminiLoading is true in every state in which the verification of
\* the file of the current record is in flight.
C26_LoadingWhileVerifying ==
    ( /\ analysis # NULL
      /\ recTask # NoTask
      /\ pc[recTask] = "remote" )
        => geminiLoading

\* C27: geminiError, when set, is the failure message of the verification
\* of the most recently started analysis, so that analysis has called the
\* verifier and its call has settled.
C27_ErrorIsOfLatestAnalysis ==
    geminiError # NoText
        => /\ latest # NoTask
           /\ latest \in invoked
           /\ pc[latest] = "done"

\* C28: whenever loading is false, no analysis is decoding metadata or
\* probing dimensions and no URL fetch is in flight.
C28_IdleWhenNotLoading ==
    ~loading
        => \A t \in Tasks :
              pc[t] \notin {"fetch", "blob", "arrayBuffer", "probe"}

\* C29: whenever a record and a preview are both present, the preview is
\* the data URL of the file the record was built from; stated here for the
\* record of the most recently started analysis.
C29_PreviewIsOfRecord ==
    ( /\ analysis # NULL
      /\ imagePreview # NoText
      /\ recTask # NoTask
      /\ recTask = latest )
        => imagePreview = DataURL(file[recTask])

(***************************************************************************)
(* Properties of the service object (SpecService).                         *)
(***************************************************************************)

\* the credential is a non-empty text other than the placeholder
Usable(apiKey) ==
    /\ apiKey.t = "string"
    /\ apiKey.s # <<>>
    /\ apiKey.s # Placeholder

\* C25: isConfigured() is true exactly when the credential given at
\* construction is non-empty and is not "your_api_key_here", and the answer
\* is the same in every later state.
C25_ConfiguredIffCredential ==
    (call # NULL /\ call.kind = "construct")
        => /\ isConfigured(geminiService) <=> Usable(call.apiKey)
           /\ result # NULL => result = Bool(Usable(call.apiKey))

C25_Witness ==
    /\ call # NULL
    /\ call.kind = "construct"
    /\ call.apiKey = Str(Placeholder)
    /\ analysis # NULL
    /\ result = Bool(FALSE)

(***************************************************************************)
(* Properties of the VisitorCounter (SpecCounter).                         *)
(***************************************************************************)

\* the fetch was rejected, answered with a status outside 200..299, or
\* answered with a body that is not JSON
FetchFailed(n) ==
    \/ n.kind = "rejected"
    \/ ~Ok(ResponseOf(n))
    \/ ~ResponseOf(n).json.ok

\* C21: whether the fetch rejects, is answered with a non-2xx status (the
\* 500 of the proxy included) or succeeds, the counter eventually leaves
\* its loading state with data that is not null; after any failure the
\* data is the mock payload; and the error flag is never true.
C21_FetchErrorNeverSurfaces ==
    /\ [](~visitorError)
    /\ []( ~visitorLoading
             => /\ visitorData # JNull
                /\ FetchFailed(call.network)
                      => visitorData = MockVisitorData(call.variant)
                /\ ~FetchFailed(call.network)
                      => visitorData = ResponseOf(call.network).json.value )
    /\ <>(~visitorLoading /\ visitorData # JNull)

C21_Witness ==
    /\ call # NULL
    /\ call.kind = "fetch"
    /\ call.network.kind = "proxy"
    /\ ResponseOf(call.network).status = 500
    /\ visitorPc = "done"
    /\ ~visitorLoading
    /\ ~visitorError
    /\ visitorData = MockVisitorData(call.variant)

====
